---- MODULE Spec2Model ----
(***************************************************************************)
(* A model of the subtitle repositioning core                              *)
(* (src/subtitle_backend/src/api/reposition_core.py).                      *)
(*                                                                         *)
(* Strings are sequences of atoms.  An atom is a fragment of text that the *)
(* code never looks inside other than by the tests modelled here: "{" and  *)
(* "}" are the braces, "\\an8" and "\\an2" the alignment tags, "\\b1" some *)
(* other override tag, "H" a letter, " " and "\t" white space, "," a       *)
(* comma, "-->" the arrow of a timing line, "00" .. "500" groups of        *)
(* digits.  A substring test of the code (r"\an8" in text) is a test for   *)
(* the atom, since no two atoms of the alphabet join into another one.     *)
(*                                                                         *)
(* A text of several lines (a file's content) is the sequence of its       *)
(* lines as "\n".join would take them: the content "a\n" is <<a, <<>>>>.   *)
(***************************************************************************)
EXTENDS Integers, Sequences, FiniteSets, TLC

VARIABLES
    pc,         \* position of the operation in progress
    regions,    \* detector output: a sequence of <<side, score>>
    place_top,  \* the placement decision (TRUE: Top)
    text,       \* an ASS event text or an SRT text line (input)
    fn,         \* which injection is applied to text: "ass" or "srt"
    res,        \* the text after one injection
    res2,       \* the text after a second injection
    content,    \* the text of the input file
    lines,      \* content.splitlines()
    i,          \* index of the line the rewriter is at (from 1)
    in_events,  \* reposition_ass_ssa: the [Events] header has been seen
    out,        \* the output lines built so far
    out_text,   \* the rewritten text
    out_text2,  \* the text rewritten a second time
    video,      \* process_subtitle: the hint words in the video's file name
    ext,        \* process_subtitle: the extension of subtitle_path
    items,      \* process_subtitle: parse_srt(content)
    adjusted,   \* process_subtitle: the items with the directive injected
    error,      \* process_subtitle: the exception raised, "" when none
    files,      \* the texts written to output files, in order
    subtitles,  \* reposition_subtitles_for_video: the cues <<start, end, text>>
    cue_idx,    \* reposition_subtitles_for_video: enumerate's idx (from 0)
    results,    \* reposition_subtitles_for_video: <<start, end, text, position>>
    ms_in,      \* Timecode: a millisecond count given to from_ms
    tc_in,      \* Timecode: a Timecode given to to_ms
    ms_out,     \* Timecode: the result of to_ms
    tc_out      \* Timecode: the result of from_ms

textVars == <<text, fn, res, res2>>
loopVars == <<lines, i, in_events, out>>
fileVars == <<content, out_text, out_text2>>
pipeVars == <<video, ext, items, adjusted, error, files>>
cueVars == <<subtitles, cue_idx, results>>
timeVars == <<ms_in, tc_in, ms_out, tc_out>>

vars == <<pc, regions, place_top, textVars, loopVars, fileVars, pipeVars, cueVars, timeVars>>

(***************************************************************************)
(* Bounds of the model.                                                    *)
(***************************************************************************)
\* scores are counted in tenths: 0 .. MaxScore stands for 0.0 .. 1.0
MaxScore == 10
\* longest text, in atoms, given to the injection functions
MaxTextLen == 4
\* most lines of an ASS/SSA input
MaxAssLines == 3
\* most lines of a WebVTT input
MaxVttLines == 4
\* most blocks of an SRT input
MaxSrtBlocks == 2

(***************************************************************************)
(* str helpers                                                             *)
(***************************************************************************)
IsSpace(a) == a \in {" ", "\t"}

RECURSIVE lstrip(_)
lstrip(s) ==
    IF s = <<>> THEN s
    ELSE IF IsSpace(Head(s)) THEN lstrip(Tail(s)) ELSE s

RECURSIVE rstrip(_)
rstrip(s) ==
    IF s = <<>> THEN s
    ELSE IF IsSpace(s[Len(s)]) THEN rstrip(SubSeq(s, 1, Len(s) - 1)) ELSE s

strip(s) == rstrip(lstrip(s))

\* a in s, for an atom a
Contains(s, a) == \E k \in DOMAIN s : s[k] = a

\* number of occurrences of atom a in s
RECURSIVE Count(_, _)
Count(s, a) ==
    IF s = <<>> THEN 0
    ELSE (IF Head(s) = a THEN 1 ELSE 0) + Count(Tail(s), a)

(***************************************************************************)
(* Placement decider                                                       *)
(***************************************************************************)
Sides == {"top", "bottom"}

\* a video's name is the set of the hint words its lowercased file name contains
VideoNames == SUBSET {"upper", "top", "lower", "bottom"}

\* scores in tenths: 0.8 is 8, 0.2 is 2, 0.6 is 6, 0.4 is 4
detect_burnin_regions(name) ==
    IF "upper" \in name \/ "top" \in name
    THEN << <<"top", 8>>, <<"bottom", 2>> >>
    ELSE IF "lower" \in name \/ "bottom" \in name
    THEN << <<"bottom", 8>>, <<"top", 2>> >>
    ELSE << <<"bottom", 6>>, <<"top", 4>> >>

\* next((s for side, s in regions if side == wanted), 0.0)
RECURSIVE first_score(_, _)
first_score(rs, wanted) ==
    IF rs = <<>> THEN 0
    ELSE IF Head(rs)[1] = wanted THEN Head(rs)[2]
    ELSE first_score(Tail(rs), wanted)

placement_tie_top(rs) == first_score(rs, "top") <= first_score(rs, "bottom")

\* lines 259-262: top_score < bottom_score
placement_from_regions(rs) == first_score(rs, "top") < first_score(rs, "bottom")

decide_subtitle_placement(name) == placement_from_regions(detect_burnin_regions(name))

(***************************************************************************)
(* ASS / SRT directive injection                                           *)
(***************************************************************************)
TagTop == "\\an8"
TagBottom == "\\an2"
\* the atoms that start with \an
AnTags == {TagTop, TagBottom}

BlockOf(tag) == <<"{", tag, "}">>

move_ass_line_always_prepends(t, tag) == BlockOf(tag) \o t

\* position of the first "}" of t, 0 when there is none
FirstClose(t) ==
    IF Contains(t, "}")
    THEN CHOOSE k \in DOMAIN t : t[k] = "}" /\ \A j \in 1 .. k - 1 : t[j] # "}"
    ELSE 0

\* t with tag put before the closing brace of its first block
MergedIntoFirstBlock(t, tag) ==
    SubSeq(t, 1, FirstClose(t) - 1) \o <<tag>> \o SubSeq(t, FirstClose(t), Len(t))

move_ass_line_merges(t, tag) ==
    IF t # <<>> /\ Head(t) = "{" /\ FirstClose(t) > 0
    THEN IF Contains(t, tag) THEN t ELSE MergedIntoFirstBlock(t, tag)
    ELSE BlockOf(tag) \o t

\* the common body of move_ass_line_to_top and move_ass_line_to_bottom
move_ass_line(t, tag) ==
    IF t # <<>> /\ Head(t) = "{"
    THEN IF Contains(t, tag) THEN t ELSE BlockOf(tag) \o t
    ELSE BlockOf(tag) \o t

move_ass_line_to_top(t) == move_ass_line(t, TagTop)

move_ass_line_to_bottom(t) == move_ass_line(t, TagBottom)

\* ln.strip().startswith("{\\an")
starts_with_an(ln) ==
    LET s == strip(ln)
    IN  Len(s) >= 2 /\ s[1] = "{" /\ s[2] \in AnTags

srt_inject_line_always_prepends(ln, top) ==
    BlockOf(IF top THEN TagTop ELSE TagBottom) \o ln

\* process_subtitle, the body of the loop over it.text_lines
srt_inject_line(ln, top) ==
    IF starts_with_an(ln) THEN ln
    ELSE BlockOf(IF top THEN TagTop ELSE TagBottom) \o ln

(***************************************************************************)
(* Lines of a text                                                         *)
(***************************************************************************)
\* content.splitlines(): a last line that is empty is no line
splitlines(c) ==
    IF c # <<>> /\ c[Len(c)] = <<>> THEN SubSeq(c, 1, Len(c) - 1) ELSE c

\* "\n".join(ls): the empty list gives the empty text, one empty line
join_lines(ls) == IF ls = <<>> THEN << <<>> >> ELSE ls

(***************************************************************************)
(* ASS / SSA rewriter                                                      *)
(***************************************************************************)
\* str.lower(), on the atoms that hold capital letters
Lower(a) ==
    CASE a = "[Events]" -> "[events]"
      [] a = "[EVENTS]" -> "[events]"
      [] a = "[Fonts]" -> "[fonts]"
      [] a = "Dialogue" -> "dialogue"
      [] a = "Comment" -> "comment"
      [] a = "Format" -> "format"
      [] OTHER -> a

\* the trimmed line is [Events] and nothing else
is_events_header_exact(line) ==
    LET s == strip(line) IN Len(s) = 1 /\ Lower(s[1]) = "[events]"

\* line.strip().lower().startswith("[events]")
is_events_header(line) ==
    LET s == strip(line) IN s # <<>> /\ Lower(s[1]) = "[events]"

\* ASS_EVENT_RE.match(line): ^(Dialogue|Comment): with IGNORECASE
ass_event_match(line) ==
    /\ Len(line) >= 2
    /\ Lower(line[1]) \in {"dialogue", "comment"}
    /\ line[2] = ":"

\* m.group("rest"): what follows the colon and the white space after it
ass_event_rest(line) == lstrip(SubSeq(line, 3, Len(line)))

\* position of the first comma of s not preceded by a backslash, 0 if none
FirstFieldComma(s) ==
    LET Unescaped(k) == s[k] = "," /\ (k = 1 \/ s[k - 1] # "\\")
    IN  IF \E k \in DOMAIN s : Unescaped(k)
        THEN CHOOSE k \in DOMAIN s : Unescaped(k) /\ \A j \in 1 .. k - 1 : ~Unescaped(j)
        ELSE 0

\* ASS_FIELDS_SPLIT.split(s, maxsplit=n)
RECURSIVE split_fields(_, _)
split_fields(s, n) ==
    IF n = 0 \/ FirstFieldComma(s) = 0 THEN <<s>>
    ELSE <<SubSeq(s, 1, FirstFieldComma(s) - 1)>>
             \o split_fields(SubSeq(s, FirstFieldComma(s) + 1, Len(s)), n - 1)

\* sep.join(parts)
RECURSIVE join_with(_, _)
join_with(parts, sep) ==
    IF parts = <<>> THEN <<>>
    ELSE IF Len(parts) = 1 THEN parts[1]
    ELSE parts[1] \o sep \o join_with(Tail(parts), sep)

\* maxsplit=9 and len(parts) >= 10
AssMaxSplit == 9
AssFieldCount == 10

ass_parts(line) == split_fields(ass_event_rest(line), AssMaxSplit)

\* f"Dialogue: {','.join(parts)},{text}" with the text moved
ass_rewritten(line, top) ==
    LET parts == ass_parts(line)
        t == parts[Len(parts)]
        lead == SubSeq(parts, 1, Len(parts) - 1)
        moved == IF top THEN move_ass_line_to_top(t) ELSE move_ass_line_to_bottom(t)
    IN  <<"Dialogue", ":", " ">> \o join_with(lead, <<",">>) \o <<",">> \o moved

ass_rewrites_ignoring_section(line, in_ev) ==
    ass_event_match(line) /\ Len(ass_parts(line)) >= AssFieldCount

\* the line is one the loop rewrites: in Events, an event, with 10 fields
ass_rewrites(line, in_ev) ==
    in_ev /\ ass_event_match(line) /\ Len(ass_parts(line)) >= AssFieldCount

\* reposition_ass_ssa: the loop, from the lines still to read
RECURSIVE ass_lines(_, _, _)
ass_lines(ls, in_ev, top) ==
    IF ls = <<>> THEN <<>>
    ELSE IF is_events_header(Head(ls)) THEN <<Head(ls)>> \o ass_lines(Tail(ls), TRUE, top)
    ELSE IF ass_rewrites(Head(ls), in_ev)
    THEN <<ass_rewritten(Head(ls), top)>> \o ass_lines(Tail(ls), in_ev, top)
    ELSE <<Head(ls)>> \o ass_lines(Tail(ls), in_ev, top)

reposition_ass_ssa(c, top) == join_lines(ass_lines(splitlines(c), FALSE, top))

(***************************************************************************)
(* WebVTT rewriter                                                         *)
(***************************************************************************)
\* str.upper(), on the atoms that hold letters of the header
Upper(a) == IF a \in {"WEBVTT", "webvtt"} THEN "WEBVTT" ELSE a

\* position of the first atom a of s (s holds one)
FirstIndex(s, a) == CHOOSE k \in DOMAIN s : s[k] = a /\ \A j \in 1 .. k - 1 : s[j] # a

\* str.split(): the runs of atoms between white space
RECURSIVE ws_split(_)
ws_split(s) ==
    LET t == lstrip(s)
        n == IF \E k \in DOMAIN t : IsSpace(t[k])
             THEN (CHOOSE k \in DOMAIN t : IsSpace(t[k]) /\ \A j \in 1 .. k - 1 : ~IsSpace(t[j])) - 1
             ELSE Len(t)
    IN  IF t = <<>> THEN <<>>
        ELSE <<SubSeq(t, 1, n)>> \o ws_split(SubSeq(t, n + 1, Len(t)))

\* tok.startswith("line:")
is_line_token(tok) == tok # <<>> /\ tok[1] \in {"line:0", "line:90", "line:5"}

RECURSIVE drop_line_tokens(_)
drop_line_tokens(toks) ==
    IF toks = <<>> THEN <<>>
    ELSE IF is_line_token(Head(toks)) THEN drop_line_tokens(Tail(toks))
    ELSE <<Head(toks)>> \o drop_line_tokens(Tail(toks))

vtt_line_token(top) == IF top THEN <<"line:0">> ELSE <<"line:90">>

\* reposition_vtt_lines, lines 185-205: a timing line with its line: setting
vtt_timing_line(line, top) ==
    LET k == FirstIndex(line, "-->")
        left == strip(SubSeq(line, 1, k - 1))
        right == strip(SubSeq(line, k + 1, Len(line)))
        \* right.split(" ", 1): at the first space, not at a tab
        sp == IF Contains(right, " ") THEN FirstIndex(right, " ") ELSE Len(right) + 1
        t == SubSeq(right, 1, sp - 1)
        settings == SubSeq(right, sp + 1, Len(right))
        tokens == Append(drop_line_tokens(ws_split(settings)), vtt_line_token(top))
    IN  rstrip(left \o <<" ", "-->", " ">> \o t \o <<" ">> \o join_with(tokens, <<" ">>))

\* the number of lines at the head of ls that are not blank
RECURSIVE text_run(_)
text_run(ls) ==
    IF ls = <<>> \/ strip(Head(ls)) = <<>> THEN 0 ELSE 1 + text_run(Tail(ls))

\* reposition_vtt_lines: the while loop, from the lines still to read
RECURSIVE reposition_vtt_lines(_, _)
reposition_vtt_lines(ls, top) ==
    IF ls = <<>> THEN <<>>
    ELSE IF Contains(Head(ls), "-->")
    THEN LET n == text_run(Tail(ls))
         IN  <<vtt_timing_line(Head(ls), top)>> \o SubSeq(ls, 2, n + 1) \o << <<>> >>
                 \o reposition_vtt_lines(SubSeq(ls, n + 2, Len(ls)), top)
    ELSE <<Head(ls)>> \o reposition_vtt_lines(Tail(ls), top)

is_vtt_header(line) == LET s == strip(line) IN Len(s) = 1 /\ Upper(s[1]) = "WEBVTT"

reposition_vtt(c, top) ==
    LET ls == splitlines(c)
    IN  IF ls # <<>> /\ is_vtt_header(ls[1])
        THEN join_lines(<<ls[1]>> \o reposition_vtt_lines(Tail(ls), top))
        ELSE join_lines(reposition_vtt_lines(ls, top))

(***************************************************************************)
(* Timecode                                                                *)
(***************************************************************************)
DigitSeq == <<"0", "1", "2", "3", "4", "5", "6", "7", "8", "9">>
Digits == {DigitSeq[k] : k \in DOMAIN DigitSeq}
DigitVal(a) == (CHOOSE k \in DOMAIN DigitSeq : DigitSeq[k] = a) - 1

\* int(s) succeeds: digits, white space around them allowed
is_int(s) == strip(s) # <<>> /\ \A k \in DOMAIN strip(s) : strip(s)[k] \in Digits

RECURSIVE digits_value(_)
digits_value(d) ==
    IF d = <<>> THEN 0
    ELSE digits_value(SubSeq(d, 1, Len(d) - 1)) * 10 + DigitVal(d[Len(d)])

\* int(s)
int_of(s) == digits_value(strip(s))

\* str(n), n >= 0
RECURSIVE digits_of(_)
digits_of(n) ==
    IF n < 10 THEN <<DigitSeq[n + 1]>>
    ELSE digits_of(n \div 10) \o <<DigitSeq[(n % 10) + 1]>>

\* f"{n:0w}": at least w digits, zeros in front
RECURSIVE zero_pad(_, _)
zero_pad(d, w) == IF Len(d) >= w THEN d ELSE zero_pad(<<"0">> \o d, w)

Timecode(h, m, s, ms) == [h |-> h, m |-> m, s |-> s, ms |-> ms]

to_ms(tc) == ((tc.h * 60 + tc.m) * 60 + tc.s) * 1000 + tc.ms

\* the minutes not reduced to the hour
from_ms_minutes_of_total(n) ==
    LET total_seconds == n \div 1000
    IN  Timecode(total_seconds \div 3600, total_seconds \div 60, total_seconds % 60, n % 1000)

from_ms(ms) ==
    LET total_seconds == ms \div 1000
        rem == total_seconds % 3600
    IN  Timecode(total_seconds \div 3600, rem \div 60, rem % 60, ms % 1000)

timecode_str_normalized(tc) ==
    LET n == from_ms(to_ms(tc))
    IN  zero_pad(digits_of(n.h), 2) \o <<":">> \o zero_pad(digits_of(n.m), 2) \o <<":">>
            \o zero_pad(digits_of(n.s), 2) \o <<",">> \o zero_pad(digits_of(n.ms), 3)

\* Timecode.__str__
timecode_str(tc) ==
    zero_pad(digits_of(tc.h), 2) \o <<":">> \o zero_pad(digits_of(tc.m), 2) \o <<":">>
        \o zero_pad(digits_of(tc.s), 2) \o <<",">> \o zero_pad(digits_of(tc.ms), 3)

\* re.split(r"[:,\.]", s)
RECURSIVE split_timecode(_)
split_timecode(s) ==
    LET IsSep(k) == s[k] \in {":", ",", "."}
    IN  IF \E k \in DOMAIN s : IsSep(k)
        THEN LET k == CHOOSE k \in DOMAIN s : IsSep(k) /\ \A j \in 1 .. k - 1 : ~IsSep(j)
             IN  <<SubSeq(s, 1, k - 1)>> \o split_timecode(SubSeq(s, k + 1, Len(s)))
        ELSE <<s>>

\* _parse_timecode_fragment returns (and does not raise ValueError)
fragment_ok(fragment) ==
    LET parts == split_timecode(strip(fragment))
    IN  Len(parts) = 4 /\ \A k \in 1 .. 4 : is_int(parts[k])

_parse_timecode_fragment(fragment) ==
    LET parts == split_timecode(strip(fragment))
    IN  Timecode(int_of(parts[1]), int_of(parts[2]), int_of(parts[3]), int_of(parts[4]))

(***************************************************************************)
(* SRT parser and serializer                                               *)
(***************************************************************************)
IsBlank(line) == strip(line) = <<>>

RECURSIVE drop_blank_head(_)
drop_blank_head(ls) ==
    IF ls # <<>> /\ IsBlank(Head(ls)) THEN drop_blank_head(Tail(ls)) ELSE ls

RECURSIVE drop_blank_tail(_)
drop_blank_tail(ls) ==
    IF ls # <<>> /\ IsBlank(ls[Len(ls)]) THEN drop_blank_tail(SubSeq(ls, 1, Len(ls) - 1))
    ELSE ls

\* str.strip() of a text of several lines; the lines of the stripped text
strip_text(c) ==
    LET ls == drop_blank_tail(drop_blank_head(c))
    IN  IF ls = <<>> THEN <<>>
        ELSE IF Len(ls) = 1 THEN <<strip(ls[1])>>
        ELSE <<lstrip(ls[1])>> \o SubSeq(ls, 2, Len(ls) - 1) \o <<rstrip(ls[Len(ls)])>>

\* re.split(r"\n\s*\n", text): the runs of lines between blank lines, of a
\* stripped text
RECURSIVE split_blocks(_)
split_blocks(ls) ==
    LET rest == drop_blank_head(ls)
        n == text_run(rest)
    IN  IF rest = <<>> THEN <<>>
        ELSE <<SubSeq(rest, 1, n)>> \o split_blocks(SubSeq(rest, n + 1, Len(rest)))

\* l.strip("\ufeff"); the atom "BOM" is the byte-order mark
RECURSIVE strip_bom(_)
strip_bom(l) ==
    IF l # <<>> /\ Head(l) = "BOM" THEN strip_bom(Tail(l))
    ELSE IF l # <<>> /\ l[Len(l)] = "BOM" THEN strip_bom(SubSeq(l, 1, Len(l) - 1))
    ELSE l

SRTItem(index, start, end, text_lines) ==
    [index |-> index, start |-> start, end |-> end, text_lines |-> text_lines]

\* a block with a malformed timecode skipped like a block with no timing line
srt_block_skips_malformed(block, n_acc) ==
    LET ls == [k \in DOMAIN block |-> strip_bom(block[k])]
        has_index == is_int(ls[1])
        idx == IF has_index THEN int_of(ls[1]) ELSE n_acc + 1
        at == IF has_index THEN 2 ELSE 1
        timing_line == strip(ls[at])
        arrow == FirstIndex(timing_line, "-->")
        start_str == SubSeq(timing_line, 1, arrow - 1)
        end_str == SubSeq(timing_line, arrow + 1, Len(timing_line))
    IN  IF at > Len(ls) THEN [kind |-> "skip"]
        ELSE IF ~Contains(timing_line, "-->") THEN [kind |-> "skip"]
        ELSE IF ~fragment_ok(start_str) \/ ~fragment_ok(end_str) THEN [kind |-> "skip"]
        ELSE [kind |-> "cue",
              item |-> SRTItem(idx, _parse_timecode_fragment(start_str),
                               _parse_timecode_fragment(end_str),
                               SubSeq(ls, at + 1, Len(ls)))]

\* parse_srt, the body of the loop over blocks: "skip", "raise" or "cue"
srt_block(block, n_acc) ==
    LET ls == [k \in DOMAIN block |-> strip_bom(block[k])]
        has_index == is_int(ls[1])
        idx == IF has_index THEN int_of(ls[1]) ELSE n_acc + 1
        at == IF has_index THEN 2 ELSE 1
        timing_line == strip(ls[at])
        arrow == FirstIndex(timing_line, "-->")
        start_str == SubSeq(timing_line, 1, arrow - 1)
        end_str == SubSeq(timing_line, arrow + 1, Len(timing_line))
    IN  IF at > Len(ls) THEN [kind |-> "skip"]
        ELSE IF ~Contains(timing_line, "-->") THEN [kind |-> "skip"]
        ELSE IF ~fragment_ok(start_str) \/ ~fragment_ok(end_str) THEN [kind |-> "raise"]
        ELSE [kind |-> "cue",
              item |-> SRTItem(idx, _parse_timecode_fragment(start_str),
                               _parse_timecode_fragment(end_str),
                               SubSeq(ls, at + 1, Len(ls)))]

RECURSIVE parse_blocks(_, _)
parse_blocks(blocks, acc) ==
    IF blocks = <<>> THEN [raised |-> FALSE, items |-> acc]
    ELSE LET r == srt_block(Head(blocks), Len(acc))
         IN  IF r.kind = "raise" THEN [raised |-> TRUE, items |-> acc]
             ELSE IF r.kind = "skip" THEN parse_blocks(Tail(blocks), acc)
             ELSE parse_blocks(Tail(blocks), Append(acc, r.item))

\* parse_srt: the items, or raised when a timecode is malformed
parse_srt(c) == parse_blocks(split_blocks(strip_text(c)), <<>>)

RECURSIVE format_items(_, _)
format_items(its, n) ==
    IF its = <<>> THEN <<>>
    ELSE LET it == Head(its)
         IN  << digits_of(n),
                timecode_str(it.start) \o <<" ", "-->", " ">> \o timecode_str(it.end) >>
                 \o (IF it.text_lines = <<>> THEN << <<>> >> ELSE it.text_lines)
                 \o << <<>> >>
                 \o format_items(Tail(its), n + 1)

\* format_srt: "\n".join(out_lines).strip() + "\n"
format_srt(its) ==
    LET stripped == strip_text(join_lines(format_items(its, 1)))
    IN  (IF stripped = <<>> THEN << <<>> >> ELSE stripped) \o << <<>> >>

\* process_subtitle, lines 289-306: the items with the directive injected
RECURSIVE adjust_items(_, _)
adjust_items(its, top) ==
    IF its = <<>> THEN <<>>
    ELSE LET it == Head(its)
         IN  <<SRTItem(it.index, it.start, it.end,
                       [k \in DOMAIN it.text_lines |-> srt_inject_line(it.text_lines[k], top)])>>
                 \o adjust_items(Tail(its), top)

(***************************************************************************)
(* Inputs                                                                  *)
(***************************************************************************)
Scores == 0 .. MaxScore

RegionEntries == Sides \X Scores

\* what a detector may return: up to two entries, in either order
RegionLists ==
    {<<>>} \cup {<<e>> : e \in RegionEntries}
           \cup {<<e1, e2>> : e1 \in RegionEntries, e2 \in RegionEntries}

TextAtoms == {"{", "}", TagTop, TagBottom, "\\b1", "H", " "}

SeqsUpTo(S, n) == UNION {[1 .. k -> S] : k \in 0 .. n}

Texts == SeqsUpTo(TextAtoms, MaxTextLen)

\* the 9 leading fields of the event 0,0:00:01.00,0:00:02.00,Default,,0,0,0,,
Lead9 == <<"0", ",", "T1", ",", "T2", ",", "F", ",", ",", "0", ",", "0", ",", "0", ",", ",">>
\* the same with an escaped comma in the Name field
Lead9Esc == <<"0", ",", "T1", ",", "T2", ",", "F", ",", "H", "\\", ",", "H", ",",
              "0", ",", "0", ",", "0", ",", ",">>

AssLines ==
    { <<"[Events]">>,
      <<" ", "[EVENTS]", " ">>,
      <<"[Events]", "H">>,
      <<"[Fonts]">>,
      <<"Format", ":", " ", "H", ",", "H">>,
      <<"Dialogue", ":", " ">> \o Lead9 \o <<"H">>,
      <<"Comment", ":", " ">> \o Lead9 \o <<"{", "\\b1", "}", "H", ",", "H">>,
      <<"dialogue", ":">> \o Lead9 \o <<"{", "\\an2", "}", "H">>,
      <<"Dialogue", ":", " ">> \o Lead9Esc \o <<"{", "\\an8", "}", "H">>,
      <<"Dialogue", ":", " ", "0", ",", "T1">>,
      <<"Dialogue", ":", " ", "0", ",", "T1", ",", "T2", ",", "F", ",", "H", "\\", ",", "H",
        ",", "0", ",", "0", ",", "0", ",", "H">>,
      <<" ", "Dialogue", ":", " ">> \o Lead9 \o <<"H">> }

\* the text "\n".join(doc), with or without a newline at its end
AsContent(doc, newline) == IF newline THEN doc \o << <<>> >> ELSE join_lines(doc)

AssContents == {AsContent(d, nl) : d \in SeqsUpTo(AssLines, MaxAssLines), nl \in BOOLEAN}

VttLines ==
    { <<"WEBVTT">>,
      <<>>,
      <<"H">>,
      <<"T1", " ", "-->", " ", "T2">>,
      <<"T1", " ", "-->", " ", "T2", " ", "line:90">>,
      <<"T1", " ", "-->", " ", "T2", " ", "align:start", " ", "line:5", " ", "position:50%">>,
      <<"T1", " ", "-->", " ", "T2", "\t", "line:90">> }

VttContents == {AsContent(d, nl) : d \in SeqsUpTo(VttLines, MaxVttLines), nl \in BOOLEAN}

\* the digits of HH:MM:SS,mmm and of other fragments
Frag(h, c1, m, c2, sec, c3, ms) == h \o <<c1>> \o m \o <<c2>> \o sec \o <<c3>> \o ms

TimingLine(a, b) == a \o <<" ", "-->", " ">> \o b

T_0_1 == Frag(<<"0", "0">>, ":", <<"0", "0">>, ":", <<"0", "1">>, ",", <<"0", "0", "0">>)
T_0_2 == Frag(<<"0", "0">>, ":", <<"0", "0">>, ":", <<"0", "2">>, ",", <<"0", "0", "0">>)
T_0_2_dot == Frag(<<"0", "0">>, ":", <<"0", "0">>, ":", <<"0", "2">>, ".", <<"5", "0", "0">>)
T_loose == Frag(<<"1">>, ":", <<"2">>, ":", <<"7", "5">>, ",", <<"5">>)
T_zero == Frag(<<"0">>, ":", <<"0">>, ":", <<"0">>, ",", <<"0">>)
T_short == <<"0", "0", ":", "0", "0", ":", "0", "1">>
T_bad == <<"0", "0", ":", "0", "0", ":", "0", "2", ",", "H">>

\* blocks of an SRT file: cues of one and two text lines, with and without
\* an index, a start after the end, digits not padded, a cue with no text,
\* blocks with no timing line, a timing line with a malformed timecode (three
\* parts; a part that is no number)
SrtBlocks ==
    { << <<"1">>, TimingLine(T_0_1, T_0_2), <<"H">> >>,
      << TimingLine(T_0_2_dot, T_0_1), <<"H">>, <<"H", " ", "H">> >>,
      << <<"7">>, TimingLine(T_loose, T_zero) >>,
      << <<"BOM", "1">>, TimingLine(T_0_1, T_0_2), <<" ", "{", "\\an2", "}", "H">>, <<"H", " ">> >>,
      << <<"2">>, <<"H">> >>,
      << <<"H">>, <<"H">> >>,
      << <<"3">> >>,
      << <<"1">>, TimingLine(T_short, T_0_2), <<"H">> >>,
      << TimingLine(T_0_1, T_bad), <<"H">> >> }

\* the blocks with a blank line, or a line of white space and a blank line,
\* after each
RECURSIVE SrtDoc(_, _)
SrtDoc(blocks, sep) ==
    IF blocks = <<>> THEN <<>> ELSE Head(blocks) \o sep \o SrtDoc(Tail(blocks), sep)

SrtContents ==
    {SrtDoc(bs, sep) : bs \in SeqsUpTo(SrtBlocks, MaxSrtBlocks),
                       sep \in {<< <<>> >>, << <<" ">>, <<>> >>}}
        \cup {AsContent(SrtDoc(bs, << <<>> >>), FALSE) : bs \in SeqsUpTo(SrtBlocks, MaxSrtBlocks)}

PipeAssContents == {AsContent(<< <<"[Events]">>, l >>, TRUE) : l \in AssLines}

PipeVttContents == {AsContent(d, TRUE) : d \in SeqsUpTo(VttLines, 2)}

\* video names that give each answer of the stub detector
PipeVideoNames == {{}, {"top"}, {"lower"}, {"upper", "bottom"}}

\* extensions os.path.splitext may give: the four formats, spellings of them
\* in other letter cases, another extension and no extension
Exts == {".srt", ".SRT", ".ass", ".Ass", ".ssa", ".vtt", ".VTT", ".txt", ""}

\* the extension compared as it is spelled
ext_exact(e) == e

\* ext.lower()
ext_lower(e) ==
    CASE e = ".SRT" -> ".srt"
      [] e = ".Ass" -> ".ass"
      [] e = ".VTT" -> ".vtt"
      [] OTHER -> e

ContentsFor(e) ==
    CASE ext_lower(e) = ".srt" -> SrtContents
      [] ext_lower(e) \in {".ass", ".ssa"} -> PipeAssContents
      [] OTHER -> PipeVttContents

(***************************************************************************)
(* Specification of the placement decider                                  *)
(***************************************************************************)
TextIdle == /\ text = <<>> /\ fn = "none" /\ res = <<>> /\ res2 = <<>>

LoopIdle == /\ lines = <<>> /\ i = 0 /\ in_events = FALSE /\ out = <<>>

PipeIdle ==
    /\ video = {} /\ ext = "" /\ items = <<>> /\ adjusted = <<>> /\ error = "" /\ files = <<>>

FileIdle == /\ content = <<>> /\ out_text = <<>> /\ out_text2 = <<>>

CueIdle == /\ subtitles = <<>> /\ cue_idx = 0 /\ results = <<>>

TimeIdle == /\ ms_in = 0 /\ tc_in = Timecode(0, 0, 0, 0) /\ ms_out = 0 /\ tc_out = Timecode(0, 0, 0, 0)

InitDecide ==
    /\ pc = "start"
    /\ regions = <<>>
    /\ place_top = FALSE
    /\ TextIdle
    /\ LoopIdle
    /\ FileIdle
    /\ PipeIdle
    /\ CueIdle
    /\ TimeIdle

\* the stub detector of this repository
DetectStub ==
    /\ pc = "start"
    /\ \E name \in VideoNames : regions' = detect_burnin_regions(name)
    /\ pc' = "detected"
    /\ UNCHANGED <<place_top, textVars, loopVars, fileVars, pipeVars, cueVars, timeVars>>

\* a detector substituted for the stub: any scored-region list
DetectOther ==
    /\ pc = "start"
    /\ regions' \in RegionLists
    /\ pc' = "detected"
    /\ UNCHANGED <<place_top, textVars, loopVars, fileVars, pipeVars, cueVars, timeVars>>

Decide ==
    /\ pc = "detected"
    /\ place_top' = placement_from_regions(regions)
    /\ pc' = "decided"
    /\ UNCHANGED <<regions, textVars, loopVars, fileVars, pipeVars, cueVars, timeVars>>

NextDecide == DetectStub \/ DetectOther \/ Decide

SpecDecide == InitDecide /\ [][NextDecide]_vars

(***************************************************************************)
(* Specification of the injection functions                                *)
(***************************************************************************)
InitText ==
    /\ pc = "text"
    /\ regions = <<>>
    /\ place_top \in BOOLEAN
    /\ text \in Texts
    /\ fn = "none"
    /\ res = <<>>
    /\ res2 = <<>>
    /\ LoopIdle
    /\ FileIdle
    /\ PipeIdle
    /\ CueIdle
    /\ TimeIdle

Inject(kind, t) ==
    IF kind = "ass"
    THEN IF place_top THEN move_ass_line_to_top(t) ELSE move_ass_line_to_bottom(t)
    ELSE srt_inject_line(t, place_top)

InjectAss ==
    /\ pc = "text"
    /\ fn' = "ass"
    /\ res' = Inject("ass", text)
    /\ pc' = "once"
    /\ UNCHANGED <<regions, place_top, text, res2, loopVars, fileVars, pipeVars, cueVars, timeVars>>

InjectSrt ==
    /\ pc = "text"
    /\ fn' = "srt"
    /\ res' = Inject("srt", text)
    /\ pc' = "once"
    /\ UNCHANGED <<regions, place_top, text, res2, loopVars, fileVars, pipeVars, cueVars, timeVars>>

InjectAgain ==
    /\ pc = "once"
    /\ res2' = Inject(fn, res)
    /\ pc' = "twice"
    /\ UNCHANGED <<regions, place_top, text, fn, res, loopVars, fileVars, pipeVars, cueVars, timeVars>>

NextText == InjectAss \/ InjectSrt \/ InjectAgain

SpecText == InitText /\ [][NextText]_vars

(***************************************************************************)
(* Specification of reposition_ass_ssa, one action per line of the input   *)
(***************************************************************************)
InitAss ==
    /\ pc = "ass_start"
    /\ regions = <<>>
    /\ place_top \in BOOLEAN
    /\ TextIdle
    /\ LoopIdle
    /\ content \in AssContents
    /\ out_text = <<>>
    /\ out_text2 = <<>>
    /\ PipeIdle
    /\ CueIdle
    /\ TimeIdle

AssSplit ==
    /\ pc = "ass_start"
    /\ lines' = splitlines(content)
    /\ i' = 1
    /\ in_events' = FALSE
    /\ out' = <<>>
    /\ pc' = "ass_loop"
    /\ UNCHANGED <<regions, place_top, textVars, fileVars, pipeVars, cueVars, timeVars>>

AssHeader ==
    /\ pc = "ass_loop"
    /\ i <= Len(lines)
    /\ is_events_header(lines[i])
    /\ in_events' = TRUE
    /\ out' = Append(out, lines[i])
    /\ i' = i + 1
    /\ UNCHANGED <<pc, regions, place_top, textVars, lines, fileVars, pipeVars, cueVars, timeVars>>

AssEvent ==
    /\ pc = "ass_loop"
    /\ i <= Len(lines)
    /\ ~is_events_header(lines[i])
    /\ ass_rewrites(lines[i], in_events)
    /\ out' = Append(out, ass_rewritten(lines[i], place_top))
    /\ i' = i + 1
    /\ UNCHANGED <<pc, regions, place_top, textVars, lines, in_events, fileVars, pipeVars, cueVars, timeVars>>

AssPassThrough ==
    /\ pc = "ass_loop"
    /\ i <= Len(lines)
    /\ ~is_events_header(lines[i])
    /\ ~ass_rewrites(lines[i], in_events)
    /\ out' = Append(out, lines[i])
    /\ i' = i + 1
    /\ UNCHANGED <<pc, regions, place_top, textVars, lines, in_events, fileVars, pipeVars, cueVars, timeVars>>

AssJoin ==
    /\ pc = "ass_loop"
    /\ i > Len(lines)
    /\ out_text' = join_lines(out)
    /\ pc' = "ass_done"
    /\ UNCHANGED <<regions, place_top, textVars, loopVars, content, out_text2, pipeVars, cueVars, timeVars>>

NextAss == AssSplit \/ AssHeader \/ AssEvent \/ AssPassThrough \/ AssJoin

SpecAss == InitAss /\ [][NextAss]_vars

(***************************************************************************)
(* Specification of reposition_vtt, applied once and once more             *)
(***************************************************************************)
InitVtt ==
    /\ pc = "vtt_start"
    /\ regions = <<>>
    /\ place_top \in BOOLEAN
    /\ TextIdle
    /\ LoopIdle
    /\ content \in VttContents
    /\ out_text = <<>>
    /\ out_text2 = <<>>
    /\ PipeIdle
    /\ CueIdle
    /\ TimeIdle

VttRewrite ==
    /\ pc = "vtt_start"
    /\ out_text' = reposition_vtt(content, place_top)
    /\ pc' = "vtt_once"
    /\ UNCHANGED <<regions, place_top, textVars, loopVars, content, out_text2, pipeVars, cueVars, timeVars>>

VttRewriteAgain ==
    /\ pc = "vtt_once"
    /\ out_text2' = reposition_vtt(out_text, place_top)
    /\ pc' = "vtt_twice"
    /\ UNCHANGED <<regions, place_top, textVars, loopVars, content, out_text, pipeVars, cueVars, timeVars>>

NextVtt == VttRewrite \/ VttRewriteAgain

SpecVtt == InitVtt /\ [][NextVtt]_vars

(***************************************************************************)
(* Specification of process_subtitle                                       *)
(***************************************************************************)
Init ==
    /\ pc = "start"
    /\ regions = <<>>
    /\ place_top = FALSE
    /\ TextIdle
    /\ LoopIdle
    /\ video \in PipeVideoNames
    /\ ext \in Exts
    /\ content \in ContentsFor(ext)
    /\ out_text = <<>>
    /\ out_text2 = <<>>
    /\ items = <<>>
    /\ adjusted = <<>>
    /\ error = ""
    /\ files = <<>>
    /\ CueIdle
    /\ TimeIdle

\* lines 277-282: the file is read and the placement decided
ReadAndDecide ==
    /\ pc = "start"
    /\ regions' = detect_burnin_regions(video)
    /\ place_top' = decide_subtitle_placement(video)
    /\ pc' = "decided"
    /\ UNCHANGED <<textVars, loopVars, fileVars, video, ext, items, adjusted, error, files, cueVars, timeVars>>

SrtParse ==
    /\ pc = "decided"
    /\ ext_lower(ext) = ".srt"
    /\ ~parse_srt(content).raised
    /\ items' = parse_srt(content).items
    /\ pc' = "parsed"
    /\ UNCHANGED <<regions, place_top, textVars, loopVars, fileVars, video, ext, adjusted, error, files, cueVars, timeVars>>

SrtParseRaises ==
    /\ pc = "decided"
    /\ ext_lower(ext) = ".srt"
    /\ parse_srt(content).raised
    /\ error' = "ValueError: invalid timecode"
    /\ pc' = "raised"
    /\ UNCHANGED <<regions, place_top, textVars, loopVars, fileVars, video, ext, items, adjusted, files, cueVars, timeVars>>

SrtAdjust ==
    /\ pc = "parsed"
    /\ adjusted' = adjust_items(items, place_top)
    /\ pc' = "adjusted"
    /\ UNCHANGED <<regions, place_top, textVars, loopVars, fileVars, video, ext, items, error, files, cueVars, timeVars>>

SrtFormat ==
    /\ pc = "adjusted"
    /\ out_text' = format_srt(adjusted)
    /\ pc' = "rewritten"
    /\ UNCHANGED <<regions, place_top, textVars, loopVars, content, out_text2, pipeVars, cueVars, timeVars>>

ProcessAss ==
    /\ pc = "decided"
    /\ ext_lower(ext) \in {".ass", ".ssa"}
    /\ out_text' = reposition_ass_ssa(content, place_top)
    /\ pc' = "rewritten"
    /\ UNCHANGED <<regions, place_top, textVars, loopVars, content, out_text2, pipeVars, cueVars, timeVars>>

ProcessVtt ==
    /\ pc = "decided"
    /\ ext_lower(ext) = ".vtt"
    /\ out_text' = reposition_vtt(content, place_top)
    /\ pc' = "rewritten"
    /\ UNCHANGED <<regions, place_top, textVars, loopVars, content, out_text2, pipeVars, cueVars, timeVars>>

Unsupported ==
    /\ pc = "decided"
    /\ ext_lower(ext) \notin {".srt", ".ass", ".ssa", ".vtt"}
    /\ error' = "ValueError: unsupported subtitle format"
    /\ pc' = "raised"
    /\ UNCHANGED <<regions, place_top, textVars, loopVars, fileVars, video, ext, items, adjusted, files, cueVars, timeVars>>

\* lines 316-320: the temporary file is made and written
WriteOutput ==
    /\ pc = "rewritten"
    /\ files' = Append(files, out_text)
    /\ pc' = "written"
    /\ UNCHANGED <<regions, place_top, textVars, loopVars, fileVars, video, ext, items, adjusted, error, cueVars, timeVars>>

Next ==
    \/ ReadAndDecide
    \/ SrtParse
    \/ SrtParseRaises
    \/ SrtAdjust
    \/ SrtFormat
    \/ ProcessAss
    \/ ProcessVtt
    \/ Unsupported
    \/ WriteOutput

Spec == Init /\ [][Next]_vars

(***************************************************************************)
(* Specification of the endpoint reposition_subtitles_json (main.py) and   *)
(* of reposition_subtitles_for_video (core/reposition.py), one action per  *)
(* cue of the loop.                                                        *)
(***************************************************************************)
MaxCues == 3

\* cues as _parse_srt_to_cues gives them: <<start, end, text>>, seconds
Cues == {<<1, 2, "H">>, <<2, 1, "H H">>}

CueLists == SeqsUpTo(Cues, MaxCues)

\* file names of the upload: the endpoint takes names ending in .srt
UploadExts == {".srt", ".SRT", ".vtt"}

\* every cue on one side
position_all_top(k) == "top"

\* core/reposition.py line 45, k is enumerate's idx
position_for(k) == IF k % 2 = 0 THEN "top" ELSE "bottom"

InitCues ==
    /\ pc = "cues_start"
    /\ regions = <<>>
    /\ place_top = FALSE
    /\ TextIdle
    /\ LoopIdle
    /\ FileIdle
    /\ video \in PipeVideoNames
    /\ ext \in UploadExts
    /\ items = <<>>
    /\ adjusted = <<>>
    /\ error = ""
    /\ files = <<>>
    /\ subtitles \in CueLists
    /\ cue_idx = 0
    /\ results = <<>>
    /\ TimeIdle

\* main.py lines 181-182
EndpointBadName ==
    /\ pc = "cues_start"
    /\ ext_lower(ext) # ".srt"
    /\ error' = "HTTP 400: only .srt files are supported"
    /\ pc' = "cues_rejected"
    /\ UNCHANGED <<regions, place_top, textVars, loopVars, fileVars, video, ext, items,
                   adjusted, files, cueVars, timeVars>>

\* main.py lines 191-193
EndpointNoCues ==
    /\ pc = "cues_start"
    /\ ext_lower(ext) = ".srt"
    /\ subtitles = <<>>
    /\ error' = "HTTP 400: no cues found"
    /\ pc' = "cues_rejected"
    /\ UNCHANGED <<regions, place_top, textVars, loopVars, fileVars, video, ext, items,
                   adjusted, files, cueVars, timeVars>>

\* main.py line 195, core/reposition.py line 43
EndpointCalls ==
    /\ pc = "cues_start"
    /\ ext_lower(ext) = ".srt"
    /\ subtitles # <<>>
    /\ cue_idx' = 0
    /\ results' = <<>>
    /\ pc' = "cues_loop"
    /\ UNCHANGED <<regions, place_top, textVars, loopVars, fileVars, pipeVars, subtitles,
                   timeVars>>

\* core/reposition.py lines 44-46
RepositionCue ==
    /\ pc = "cues_loop"
    /\ cue_idx < Len(subtitles)
    /\ results' = Append(results, subtitles[cue_idx + 1] \o <<position_for(cue_idx)>>)
    /\ cue_idx' = cue_idx + 1
    /\ UNCHANGED <<pc, regions, place_top, textVars, loopVars, fileVars, pipeVars, subtitles,
                   timeVars>>

\* core/reposition.py line 47
RepositionReturn ==
    /\ pc = "cues_loop"
    /\ cue_idx = Len(subtitles)
    /\ pc' = "cues_done"
    /\ UNCHANGED <<regions, place_top, textVars, loopVars, fileVars, pipeVars, cueVars,
                   timeVars>>

NextCues ==
    \/ EndpointBadName
    \/ EndpointNoCues
    \/ EndpointCalls
    \/ RepositionCue
    \/ RepositionReturn

(***************************************************************************)
(* reposition_srt_to_top (reposition_srt_top.py)                           *)
(***************************************************************************)
\* the alignment tags \an1 .. \an9 that occur in the inputs
AlignAtoms == {"\\an2", "\\an5", "\\an8"}

\* ASS_ALIGN_TAG_RE matches at position k of s: a block holding one
\* alignment tag and nothing else
align_tag_at(s, k) ==
    /\ k + 2 <= Len(s)
    /\ s[k] = "{"
    /\ s[k + 1] \in AlignAtoms
    /\ s[k + 2] = "}"

\* ASS_ALIGN_TAG_RE.search(line)
has_align_tag(s) == \E k \in DOMAIN s : align_tag_at(s, k)

\* ASS_ALIGN_TAG_RE.sub("", line): the matches from the left, not overlapping
RECURSIVE remove_align_tags(_)
remove_align_tags(s) ==
    IF s = <<>> THEN <<>>
    ELSE IF align_tag_at(s, 1) THEN remove_align_tags(SubSeq(s, 4, Len(s)))
    ELSE <<Head(s)>> \o remove_align_tags(Tail(s))

\* ASS_BLOCK_AT_START_RE.match(line): the end of the block at the start of
\* the line, 0 when the line does not start with a block
block_end(s) ==
    IF s # <<>> /\ Head(s) = "{" /\ Contains(s, "}") THEN FirstIndex(s, "}") ELSE 0

\* block[:-1] + r"\an8" + "}" followed by the rest of the line
insert_an8(s) ==
    SubSeq(s, 1, block_end(s) - 1) \o <<TagTop>> \o SubSeq(s, block_end(s), Len(s))

\* the branch for a line that starts with a block, at lines 63-72 (keep is
\* the line returned when the block holds \an8) and at lines 76-85
an8_into_line(s) ==
    IF block_end(s) > 0
    THEN IF Contains(SubSeq(s, 1, block_end(s)), TagTop) THEN s ELSE insert_an8(s)
    ELSE BlockOf(TagTop) \o s

_sanitize_line_top(line) ==
    IF strip(line) = <<>> THEN line
    ELSE IF has_align_tag(line) THEN an8_into_line(remove_align_tags(line))
    ELSE an8_into_line(line)

\* index of the first line that is not blank, 0 when there is none
first_non_empty(text_lines) ==
    IF \E k \in DOMAIN text_lines : strip(text_lines[k]) # <<>>
    THEN CHOOSE k \in DOMAIN text_lines :
             /\ strip(text_lines[k]) # <<>>
             /\ \A j \in 1 .. k - 1 : strip(text_lines[j]) = <<>>
    ELSE 0

_process_cue_text_lines_to_top(text_lines) ==
    IF first_non_empty(text_lines) = 0 THEN text_lines
    ELSE [text_lines EXCEPT ![first_non_empty(text_lines)] = _sanitize_line_top(@)]

\* \d{2}:\d{2}:\d{2}[,\.]\d{3} matches at position k of s
time_at(s, k) ==
    /\ k + 11 <= Len(s)
    /\ \A j \in {0, 1, 3, 4, 6, 7, 9, 10, 11} : s[k + j] \in Digits
    /\ s[k + 2] = ":"
    /\ s[k + 5] = ":"
    /\ s[k + 8] \in {",", "."}

\* the first position from k on that holds no white space
RECURSIVE skip_space(_, _)
skip_space(s, k) == IF k <= Len(s) /\ IsSpace(s[k]) THEN skip_space(s, k + 1) ELSE k

\* TIME_LINE_RE.search(time_line)
time_line_match(s) ==
    \E k \in DOMAIN s :
        /\ time_at(s, k)
        /\ LET a == skip_space(s, k + 12)
           IN  /\ a <= Len(s)
               /\ s[a] = "-->"
               /\ time_at(s, skip_space(s, a + 1))

\* str.isdigit()
isdigit(s) == s # <<>> /\ \A k \in DOMAIN s : s[k] \in Digits

\* parse_srt_blocks: the loop over blocks, n cues found so far
RECURSIVE parse_top_blocks(_, _)
parse_top_blocks(blocks, synth_index) ==
    IF blocks = <<>> THEN <<>>
    ELSE LET ls == Head(blocks)
             index_line == strip(ls[1])
             line_ptr == IF isdigit(index_line) /\ Len(ls) > 1 THEN 2 ELSE 1
             index_value == IF isdigit(index_line) THEN index_line ELSE digits_of(synth_index)
             time_line == strip(ls[line_ptr])
         IN  IF ~time_line_match(time_line)
             THEN parse_top_blocks(Tail(blocks), synth_index)
             ELSE << [index |-> index_value, time_line |-> time_line,
                      text_lines |-> SubSeq(ls, line_ptr + 1, Len(ls))] >>
                      \o parse_top_blocks(Tail(blocks), synth_index + 1)

parse_srt_blocks(c) == parse_top_blocks(split_blocks(strip_text(c)), 1)

\* format_srt of reposition_srt_top.py: the parts before the join
RECURSIVE format_top_parts(_, _)
format_top_parts(cues, n) ==
    IF cues = <<>> THEN <<>>
    ELSE << digits_of(n), Head(cues).time_line >>
             \o (IF Head(cues).text_lines = <<>> THEN << <<>> >> ELSE Head(cues).text_lines)
             \o << <<>> >>
             \o format_top_parts(Tail(cues), n + 1)

\* format_srt of reposition_srt_top.py: "\n".join(parts).strip() + "\n"
format_srt_top(cues) ==
    LET stripped == strip_text(join_lines(format_top_parts(cues, 1)))
    IN  (IF stripped = <<>> THEN << <<>> >> ELSE stripped) \o << <<>> >>

reposition_srt_to_top(c) ==
    LET cues == parse_srt_blocks(c)
    IN  format_srt_top([k \in DOMAIN cues |->
            [cues[k] EXCEPT !.text_lines = _process_cue_text_lines_to_top(@)]])

\* pieces of a text line: override blocks, letters
MaxPieces == 2

TopPieces ==
    { <<"{", "\\an2", "}">>, <<"{", "\\an8", "}">>, <<"{", "\\b1", "}">>,
      <<"{", "\\an2", "\\b1", "}">>, <<"{", "\\b1", "\\an5", "}">>,
      <<"{", "\\an8", "\\b1", "}">>, <<"{", "}">>, <<"H">>, <<"H", " ", "H">> }

RECURSIVE concat(_)
concat(ps) == IF ps = <<>> THEN <<>> ELSE Head(ps) \o concat(Tail(ps))

TopLines == {concat(ps) : ps \in SeqsUpTo(TopPieces, MaxPieces)} \ {<<>>}

\* blocks of an SRT file: one text line of every kind; two text lines; no
\* index; the timing line with white space around it and with a dot; no
\* text; no timing line; a timing line that TIME_LINE_RE does not match
TopBlocks ==
    {<< <<"1">>, TimingLine(T_0_1, T_0_2), l >> : l \in TopLines}
        \cup {<< TimingLine(T_0_2_dot, T_0_1), l, <<"{", "\\an2", "}", "H">> >> :
                 l \in {<<"H">>, <<"{", "\\b1", "}", "H">>}}
        \cup { << <<"7">>, <<" ">> \o TimingLine(T_0_1, T_0_2) \o <<" ">>, <<"H">> >>,
               << <<"7">>, TimingLine(T_0_1, T_0_2) >>,
               << <<"2">>, <<"H">> >>,
               << <<"1">>, TimingLine(T_loose, T_zero), <<"H">> >> }

TopContents ==
    {SrtDoc(bs, sep) : bs \in SeqsUpTo(TopBlocks, 1), sep \in {<< <<>> >>, << <<" ">>, <<>> >>}}
        \cup {SrtDoc(bs, << <<>> >>) :
                 bs \in SeqsUpTo({b \in TopBlocks : Len(b) # 3 \/ Len(b[3]) <= 4}, MaxSrtBlocks)}

InitTop ==
    /\ pc = "top_start"
    /\ regions = <<>>
    /\ place_top = TRUE
    /\ TextIdle
    /\ LoopIdle
    /\ content \in TopContents
    /\ out_text = <<>>
    /\ out_text2 = <<>>
    /\ PipeIdle
    /\ CueIdle
    /\ TimeIdle

\* reposition_srt_top.py line 198
TopRewrite ==
    /\ pc = "top_start"
    /\ out_text' = reposition_srt_to_top(content)
    /\ pc' = "top_once"
    /\ UNCHANGED <<regions, place_top, textVars, loopVars, content, out_text2, pipeVars,
                   cueVars, timeVars>>

\* the function applied to its own output
TopRewriteAgain ==
    /\ pc = "top_once"
    /\ out_text2' = reposition_srt_to_top(out_text)
    /\ pc' = "top_twice"
    /\ UNCHANGED <<regions, place_top, textVars, loopVars, content, out_text, pipeVars,
                   cueVars, timeVars>>

NextTop == TopRewrite \/ TopRewriteAgain

SpecTop == InitTop /\ [][NextTop]_vars

(***************************************************************************)
(* Specification of the Timecode conversions: from_ms and to_ms, each      *)
(* applied to an input and then the other applied to the result            *)
(***************************************************************************)
MaxMs == 1500

MaxHours == 2

\* millisecond counts: the first ones, and the ones around a minute, an
\* hour, an hour a minute and a second, a day, a hundred hours
MsInputs ==
    (0 .. MaxMs) \cup
        {b + d : b \in {60000, 3600000, 3661000, 86400000, 360000000}, d \in -2 .. MaxMs}

\* Timecodes as the parser may build them: fields in and out of the ranges
\* of a clock
TcInputs ==
    {Timecode(h, m, sec, k) : h \in 0 .. MaxHours, m \in {0, 1, 59, 60}, sec \in {0, 1, 59, 75},
                              k \in {0, 1, 999, 1000}}

InitTimecode ==
    /\ regions = <<>>
    /\ place_top = FALSE
    /\ TextIdle
    /\ LoopIdle
    /\ FileIdle
    /\ PipeIdle
    /\ CueIdle
    /\ ms_out = 0
    /\ tc_out = Timecode(0, 0, 0, 0)
    /\ \/ pc = "tc_ms" /\ ms_in \in MsInputs /\ tc_in = Timecode(0, 0, 0, 0)
       \/ pc = "tc_tc" /\ ms_in = 0 /\ tc_in \in TcInputs

FromMs ==
    /\ pc = "tc_ms"
    /\ tc_out' = from_ms(ms_in)
    /\ pc' = "tc_from"
    /\ UNCHANGED <<regions, place_top, textVars, loopVars, fileVars, pipeVars, cueVars,
                   ms_in, tc_in, ms_out>>

ToMsBack ==
    /\ pc = "tc_from"
    /\ ms_out' = to_ms(tc_out)
    /\ pc' = "tc_from_to"
    /\ UNCHANGED <<regions, place_top, textVars, loopVars, fileVars, pipeVars, cueVars,
                   ms_in, tc_in, tc_out>>

ToMs ==
    /\ pc = "tc_tc"
    /\ ms_out' = to_ms(tc_in)
    /\ pc' = "tc_to"
    /\ UNCHANGED <<regions, place_top, textVars, loopVars, fileVars, pipeVars, cueVars,
                   ms_in, tc_in, tc_out>>

FromMsBack ==
    /\ pc = "tc_to"
    /\ tc_out' = from_ms(ms_out)
    /\ pc' = "tc_to_from"
    /\ UNCHANGED <<regions, place_top, textVars, loopVars, fileVars, pipeVars, cueVars,
                   ms_in, tc_in, ms_out>>

NextTimecode == FromMs \/ ToMsBack \/ ToMs \/ FromMsBack

SpecTimecode == InitTimecode /\ [][NextTimecode]_vars

(***************************************************************************)
(* Specification of the service: either entry point                        *)
(***************************************************************************)
InitService == Init \/ InitCues

NextService == Next \/ NextCues

SpecService == InitService /\ [][NextService]_vars

(***************************************************************************)
(* C1: decide_subtitle_placement returns Top exactly when the Top score is *)
(* strictly lower than the Bottom score; top >= bottom, ties included,     *)
(* gives Bottom.  Stated for every detector output that holds one score    *)
(* per side, in either order.                                              *)
(***************************************************************************)
OneScorePerSide ==
    /\ Len(regions) = 2
    /\ {regions[1][1], regions[2][1]} = Sides

ScoreOf(side) == IF regions[1][1] = side THEN regions[1][2] ELSE regions[2][2]

C1_StrictlyLowerTop ==
    (pc = "decided" /\ OneScorePerSide) =>
        /\ (ScoreOf("top") < ScoreOf("bottom")) => place_top = TRUE
        /\ (ScoreOf("top") >= ScoreOf("bottom")) => place_top = FALSE

C1_TieGivesBottom ==
    /\ pc = "decided"
    /\ OneScorePerSide
    /\ ScoreOf("top") = ScoreOf("bottom")
    /\ ScoreOf("top") > 0
    /\ place_top = FALSE

(***************************************************************************)
(* C3 as stated: when the event text starts with a {...} block that does   *)
(* not contain the target tag, the ASS rewrite puts the tag inside that    *)
(* block, before its closing brace, and adds no block in front of it.      *)
(***************************************************************************)
Tag == IF place_top THEN TagTop ELSE TagBottom

StartsWithBlock(t) == t # <<>> /\ Head(t) = "{" /\ FirstClose(t) > 0

FirstBlock(t) == SubSeq(t, 1, FirstClose(t))

C3_MergedIntoExistingBlock ==
    (pc = "once" /\ fn = "ass" /\ StartsWithBlock(text)
        /\ ~Contains(FirstBlock(text), Tag)) =>
        /\ res = MergedIntoFirstBlock(text, Tag)
        /\ Count(res, Tag) = 1

(***************************************************************************)
(* C3 amended: when the event text starts with "{" and the target tag is   *)
(* nowhere in the text, the ASS rewrite adds a new block {tag} in front of *)
(* the text, which it leaves as it was, and the result holds the tag once; *)
(* when the tag is already somewhere in such a text, the text is returned  *)
(* unchanged.                                                              *)
(***************************************************************************)
C3_PrependsNewBlock ==
    (pc = "once" /\ fn = "ass" /\ text # <<>> /\ Head(text) = "{") =>
        /\ ~Contains(text, Tag) =>
              /\ Len(res) = Len(text) + 3
              /\ SubSeq(res, 1, 3) = <<"{", Tag, "}">>
              /\ SubSeq(res, 4, Len(res)) = text
              /\ Count(res, Tag) = 1
        /\ Contains(text, Tag) => res = text

C3_BlockAddedInFront ==
    /\ pc = "once"
    /\ fn = "ass"
    /\ place_top
    /\ text = <<"{", "\\b1", "}", "H">>
    /\ res = <<"{", "\\an8", "}", "{", "\\b1", "}", "H">>

(***************************************************************************)
(* C7: the directive injection on an ASS event text and on an SRT text     *)
(* line is idempotent, for Top and for Bottom: a second application        *)
(* returns what the first one returned.                                    *)
(***************************************************************************)
C7_InjectionIdempotent == pc = "twice" => res2 = res

C7_SecondPassOnInjectedText ==
    /\ pc = "twice"
    /\ res # text
    /\ text # <<>>
    /\ Head(text) = "{"
    /\ res2 = res

(***************************************************************************)
(* The lines of an ASS input that the rewriter is to rewrite: the          *)
(* well-formed events (10 fields) after an [Events] header line.           *)
(***************************************************************************)
WellFormedEvent(line) == ass_event_match(line) /\ Len(split_fields(ass_event_rest(line), 9)) = 10

RewritableIn(ls, k) ==
    /\ ~is_events_header(ls[k])
    /\ \E j \in 1 .. k - 1 : is_events_header(ls[j])
    /\ WellFormedEvent(ls[k])

Rewritable(k) == RewritableIn(lines, k)

\* the 9 leading fields and the text of an event line
LeadFields(line) == SubSeq(split_fields(ass_event_rest(line), 9), 1, 9)

EventText(line) == split_fields(ass_event_rest(line), 9)[10]

(***************************************************************************)
(* C9 as stated: a rewritten event line keeps its kind (Dialogue stays     *)
(* Dialogue, Comment stays Comment) and its 9 leading fields, in order,    *)
(* and the commas of its text.                                             *)
(***************************************************************************)
C9_OnlyTextFieldChanges ==
    pc = "ass_done" =>
        \A k \in DOMAIN lines :
            Rewritable(k) =>
                /\ Lower(out[k][1]) = Lower(lines[k][1])
                /\ LeadFields(out[k]) = LeadFields(lines[k])
                /\ Count(EventText(out[k]), ",") = Count(EventText(lines[k]), ",")

(***************************************************************************)
(* C10: the ASS rewriter emits one output line per input line, in order,   *)
(* and emits unchanged every line that is not a well-formed event inside   *)
(* Events: the lines before the header (Dialogue and Comment lines too),   *)
(* the header, the other lines inside Events, and the event lines with     *)
(* fewer than 10 fields.                                                   *)
(***************************************************************************)
C10_OtherLinesVerbatim ==
    /\ pc = "ass_loop" => Len(out) = i - 1
    /\ pc \in {"ass_loop", "ass_done"} =>
          \A k \in DOMAIN out : ~Rewritable(k) => out[k] = lines[k]
    /\ pc = "ass_done" =>
          /\ Len(out) = Len(lines)
          /\ splitlines(out_text) = out

C10_EventBeforeHeaderAndShortEvent ==
    /\ pc = "ass_done"
    /\ Len(lines) = 3
    /\ WellFormedEvent(lines[1])
    /\ is_events_header(lines[2])
    /\ ass_event_match(lines[3])
    /\ ~WellFormedEvent(lines[3])
    /\ Contains(lines[3], "\\")
    /\ out = lines

(***************************************************************************)
(* C6 as stated: the VTT rewrite applied twice with the same placement     *)
(* gives the document that one application gives.                          *)
(***************************************************************************)
C6_VttRewriteIdempotent == pc = "vtt_twice" => out_text2 = out_text

(***************************************************************************)
(* The timing lines of a VTT text, and the tokens of one.                  *)
(***************************************************************************)
RECURSIVE ArrowLines(_)
ArrowLines(ls) ==
    IF ls = <<>> THEN <<>>
    ELSE IF Contains(Head(ls), "-->") THEN <<Head(ls)>> \o ArrowLines(Tail(ls))
    ELSE ArrowLines(Tail(ls))

StartOf(line) == strip(SubSeq(line, 1, FirstIndex(line, "-->") - 1))

\* the tokens after the arrow: the end timecode, then the settings
RightTokens(line) == ws_split(SubSeq(line, FirstIndex(line, "-->") + 1, Len(line)))

EndOf(line) == IF RightTokens(line) = <<>> THEN <<>> ELSE Head(RightTokens(line))

SettingsOf(line) == IF RightTokens(line) = <<>> THEN <<>> ELSE Tail(RightTokens(line))

RECURSIVE LineTokens(_)
LineTokens(toks) ==
    IF toks = <<>> THEN <<>>
    ELSE IF is_line_token(Head(toks)) THEN <<Head(toks)>> \o LineTokens(Tail(toks))
    ELSE LineTokens(Tail(toks))

(***************************************************************************)
(* C8 as stated: after the VTT rewrite every line containing --> has       *)
(* exactly one settings token beginning with line:, it is the last token   *)
(* and it is line:0 for Top and line:90 for Bottom; the other settings     *)
(* tokens are kept in order and the start and end timecodes are unchanged. *)
(***************************************************************************)
C8_OneLineSettingLast ==
    pc = "vtt_once" =>
        LET ins == ArrowLines(splitlines(content))
            outs == ArrowLines(splitlines(out_text))
        IN  /\ Len(outs) = Len(ins)
            /\ \A k \in DOMAIN outs :
                  /\ LineTokens(SettingsOf(outs[k])) = <<vtt_line_token(place_top)>>
                  /\ outs[k][Len(outs[k])] = vtt_line_token(place_top)[1]
                  /\ drop_line_tokens(SettingsOf(outs[k])) = drop_line_tokens(SettingsOf(ins[k]))
                  /\ StartOf(outs[k]) = StartOf(ins[k])
                  /\ EndOf(outs[k]) = EndOf(ins[k])

(***************************************************************************)
(* The cues of the SRT input and of the SRT output of process_subtitle.    *)
(***************************************************************************)
SrtDone == pc \in {"rewritten", "written"} /\ ext_lower(ext) = ".srt"

InCues == parse_srt(content).items

OutCues == parse_srt(out_text).items

WrongTag == IF place_top THEN TagBottom ELSE TagTop

WrongLineToken == IF place_top THEN "line:90" ELSE "line:0"

(***************************************************************************)
(* C2 as stated: after one pass of process_subtitle no cue rewritten for   *)
(* Top carries a Bottom directive (\an2, line:90) and no cue rewritten for *)
(* Bottom carries a Top directive (\an8, line:0): the text lines of the    *)
(* SRT cues, the rewritten ASS event lines, the rewritten VTT timing       *)
(* lines.                                                                  *)
(***************************************************************************)
C2_NoOppositeDirective ==
    pc = "written" =>
        /\ ext_lower(ext) = ".srt" =>
              \A k \in DOMAIN OutCues : \A j \in DOMAIN OutCues[k].text_lines :
                  ~Contains(OutCues[k].text_lines[j], WrongTag)
        /\ ext_lower(ext) \in {".ass", ".ssa"} =>
              \A k \in DOMAIN splitlines(content) :
                  RewritableIn(splitlines(content), k) =>
                      ~Contains(splitlines(out_text)[k], WrongTag)
        /\ ext_lower(ext) = ".vtt" =>
              \A k \in DOMAIN splitlines(out_text) :
                  LET o == splitlines(out_text)[k]
                  IN  (Contains(o, "-->") /\ o[Len(o)] = vtt_line_token(place_top)[1]) =>
                          ~Contains(o, WrongLineToken)

(***************************************************************************)
(* C4 as stated: the text lines of every SRT cue come out in the same      *)
(* number and order, changed only by one injected directive per cue: at    *)
(* most one line of a cue differs from its input line, and it is that line *)
(* with the directive in front.                                            *)
(***************************************************************************)
C4_OneDirectivePerCue ==
    SrtDone =>
        /\ Len(OutCues) = Len(InCues)
        /\ \A k \in DOMAIN InCues :
              LET a == InCues[k].text_lines
                  b == OutCues[k].text_lines
              IN  /\ Len(b) = Len(a)
                  /\ \A j \in DOMAIN a : b[j] = a[j] \/ b[j] = <<"{", Tag, "}">> \o a[j]
                  /\ Cardinality({j \in DOMAIN a : b[j] # a[j]}) <= 1

(***************************************************************************)
(* C4 amended: the text lines of every SRT cue come out in the same number *)
(* and order; every line whose trimmed content does not already begin with *)
(* {\an comes out with one directive in front of it ({\an8} for Top,       *)
(* {\an2} for Bottom), so a cue of several lines receives one directive    *)
(* per such line; a line that begins with {\an comes out as it was; and    *)
(* the last text line of the output loses its trailing white space.        *)
(***************************************************************************)
HasAlignment(line) ==
    LET t == strip(line) IN Len(t) >= 2 /\ t[1] = "{" /\ t[2] \in {"\\an8", "\\an2"}

C4_OneDirectivePerLine ==
    SrtDone =>
        /\ Len(OutCues) = Len(InCues)
        /\ \A k \in DOMAIN InCues :
              LET a == InCues[k].text_lines
                  b == OutCues[k].text_lines
              IN  /\ Len(b) = Len(a)
                  /\ \A j \in DOMAIN a :
                        LET want == IF HasAlignment(a[j]) THEN a[j]
                                    ELSE <<"{", Tag, "}">> \o a[j]
                        IN  IF k = Len(InCues) /\ j = Len(a)
                            THEN b[j] = rstrip(want)
                            ELSE b[j] = want

C4_TwoLinesTwoDirectives ==
    /\ pc = "written"
    /\ ext_lower(ext) = ".srt"
    /\ place_top
    /\ Len(OutCues) = 2
    /\ InCues[1].text_lines = << <<" ", "{", "\\an2", "}", "H">>, <<"H", " ">> >>
    /\ OutCues[1].text_lines = << <<" ", "{", "\\an2", "}", "H">>, <<"{", "\\an8", "}", "H", " ">> >>
    /\ InCues[2].text_lines = << <<"H">>, <<"H", " ", "H">> >>
    /\ OutCues[2].text_lines = << <<"{", "\\an8", "}", "H">>, <<"{", "\\an8", "}", "H", " ", "H">> >>

(***************************************************************************)
(* C5: the SRT output of process_subtitle holds exactly the cues parse_srt *)
(* recognised in the input: as many, in the same order, each with the same *)
(* start and end Timecode; a cue whose start is after its end comes out    *)
(* with its timing unchanged.                                              *)
(***************************************************************************)
C5_SameCuesSameTiming ==
    /\ pc \in {"parsed", "adjusted", "rewritten", "written"} /\ ext_lower(ext) = ".srt" =>
          items = InCues
    /\ SrtDone =>
          /\ ~parse_srt(out_text).raised
          /\ Len(OutCues) = Len(InCues)
          /\ \A k \in DOMAIN InCues :
                /\ OutCues[k].start = InCues[k].start
                /\ OutCues[k].end = InCues[k].end
    /\ pc = "written" => files = <<out_text>>

C5_StartAfterEndKept ==
    /\ pc = "written"
    /\ ext_lower(ext) = ".srt"
    /\ Len(InCues) = 2
    /\ to_ms(InCues[1].start) > to_ms(InCues[1].end)
    /\ OutCues[1].start = Timecode(0, 0, 2, 500)
    /\ OutCues[1].end = Timecode(0, 0, 1, 0)
    /\ OutCues[2].start = Timecode(1, 2, 75, 5)
    /\ OutCues[2].index = 2

(***************************************************************************)
(* C11: process_subtitle accepts exactly .srt, .ass, .ssa and .vtt, in any *)
(* letter case; with any other extension it fails with the unsupported-    *)
(* format error and no output file is created or written.                  *)
(***************************************************************************)
SupportedSpellings == {".srt", ".SRT", ".ass", ".Ass", ".ssa", ".vtt", ".VTT"}

UnsupportedError == "ValueError: unsupported subtitle format"

C11_ExactlyFourFormats ==
    /\ ext \notin SupportedSpellings =>
          /\ files = <<>>
          /\ out_text = <<>>
          /\ pc \in {"start", "decided", "raised"}
          /\ pc = "raised" => error = UnsupportedError
    /\ ext \in SupportedSpellings => error # UnsupportedError
    /\ (ext \in SupportedSpellings /\ pc = "written") => files = <<out_text>>

C11_TxtRaisedNothingWritten ==
    /\ pc = "raised"
    /\ ext = ".txt"
    /\ error = UnsupportedError
    /\ files = <<>>

(***************************************************************************)
(* C12: when the input file holds no parseable cue at all (an .srt file    *)
(* whose blocks all lack a --> timing line, an empty file), process_       *)
(* subtitle reports a failure to the caller and produces no output file.   *)
(***************************************************************************)
\* the input holds no cue the format's rewriter recognises
NoParseableCue ==
    CASE ext_lower(ext) = ".srt" ->
             ~parse_srt(content).raised /\ parse_srt(content).items = <<>>
      [] ext_lower(ext) \in {".ass", ".ssa"} ->
             \A k \in DOMAIN splitlines(content) : ~RewritableIn(splitlines(content), k)
      [] ext_lower(ext) = ".vtt" ->
             \A k \in DOMAIN splitlines(content) : ~Contains(splitlines(content)[k], "-->")
      [] OTHER -> FALSE

C12_NoCueIsHardFailure ==
    NoParseableCue =>
        /\ files = <<>>
        /\ pc = "written" => error # ""

(***************************************************************************)
(* The side process_subtitle decided is the side of every directive the    *)
(* pass injects: the decision is the decider's answer for the video from   *)
(* the moment it is taken, and every text line of an SRT cue and every     *)
(* text of a rewritten ASS event is either kept or gets the block of that  *)
(* side in front; every VTT timing line the pass builds ends with the      *)
(* line: token of that side.                                               *)
(***************************************************************************)
ProcessPcs == {"decided", "parsed", "adjusted", "rewritten", "written", "raised"}

DecidedOnceAppliedToAll ==
    /\ pc \in ProcessPcs => place_top = decide_subtitle_placement(video)
    /\ (pc \in {"adjusted", "rewritten", "written"} /\ ext_lower(ext) = ".srt") =>
          /\ Len(adjusted) = Len(items)
          /\ \A c \in DOMAIN items :
                /\ DOMAIN adjusted[c].text_lines = DOMAIN items[c].text_lines
                /\ \A j \in DOMAIN items[c].text_lines :
                      adjusted[c].text_lines[j] \in
                          {items[c].text_lines[j], BlockOf(Tag) \o items[c].text_lines[j]}
    /\ (pc \in {"rewritten", "written"} /\ ext_lower(ext) \in {".ass", ".ssa"}) =>
          \A k \in DOMAIN splitlines(content) :
              RewritableIn(splitlines(content), k) =>
                  EventText(splitlines(out_text)[k]) \in
                      {EventText(splitlines(content)[k]),
                       BlockOf(Tag) \o EventText(splitlines(content)[k])}
    /\ (pc \in {"rewritten", "written"} /\ ext_lower(ext) = ".vtt") =>
          \A k \in DOMAIN splitlines(out_text) :
              LET o == splitlines(out_text)[k]
              IN  Contains(o, "-->") =>
                      \/ o[Len(o)] = vtt_line_token(place_top)[1]
                      \/ \E j \in DOMAIN splitlines(content) : splitlines(content)[j] = o

(***************************************************************************)
(* C13 as stated: the placement is decided once per file and every cue of  *)
(* the file receives the same side, in process_subtitle and in             *)
(* reposition_subtitles_for_video: no two cues of one file are assigned    *)
(* different sides.                                                        *)
(***************************************************************************)
C13_SameSideForEveryCue ==
    /\ DecidedOnceAppliedToAll
    /\ pc \in {"cues_loop", "cues_done"} =>
          \A j \in DOMAIN results : \A k \in DOMAIN results : results[j][4] = results[k][4]

(***************************************************************************)
(* C13 amended: process_subtitle decides once per file and injects the     *)
(* directive of that side only; reposition_subtitles_for_video does not    *)
(* decide per file: it keeps start, end and text of every cue, in order,   *)
(* and gives the cue at index k (from 0) the position top when k is even,  *)
(* bottom when k is odd.                                                   *)
(***************************************************************************)
C13_OncePerFileAlternatingInStub ==
    /\ DecidedOnceAppliedToAll
    /\ pc \in {"cues_loop", "cues_done"} =>
          /\ Len(results) = cue_idx
          /\ \A k \in DOMAIN results :
                /\ SubSeq(results[k], 1, 3) = subtitles[k]
                /\ results[k][4] = (IF (k - 1) % 2 = 0 THEN "top" ELSE "bottom")
    /\ pc = "cues_done" => Len(results) = Len(subtitles)

C13_TwoCuesTwoSides ==
    /\ pc = "cues_done"
    /\ Len(results) >= 2
    /\ results[1][4] = "top"
    /\ results[2][4] = "bottom"

(***************************************************************************)
(* C14: reposition_srt_to_top changes only the first non-empty text line   *)
(* of each cue and leaves the timing line and the other text lines         *)
(* unchanged; after the call that first line carries \an8 exactly once and *)
(* no other alignment tag \an1..\an9, an existing alignment, in a block of *)
(* its own or in a combined block, being replaced; a second application    *)
(* changes nothing.                                                        *)
(***************************************************************************)
TopIn == parse_srt_blocks(content)

TopOut == parse_srt_blocks(out_text)

C14_FirstLineTopOnly ==
    /\ pc \in {"top_once", "top_twice"} =>
          /\ Len(TopOut) = Len(TopIn)
          /\ \A c \in DOMAIN TopIn :
                LET f == first_non_empty(TopIn[c].text_lines)
                IN  /\ TopOut[c].time_line = TopIn[c].time_line
                    /\ DOMAIN TopOut[c].text_lines = DOMAIN TopIn[c].text_lines
                    /\ \A j \in DOMAIN TopIn[c].text_lines :
                          j # f => TopOut[c].text_lines[j] = TopIn[c].text_lines[j]
                    /\ f > 0 =>
                          /\ Count(TopOut[c].text_lines[f], TagTop) = 1
                          /\ \A a \in AlignAtoms \ {TagTop} :
                                ~Contains(TopOut[c].text_lines[f], a)
    /\ pc = "top_twice" => out_text2 = out_text

(***************************************************************************)
(* C15: to_ms and from_ms are mutual inverses: for every millisecond count *)
(* ms >= 0, from_ms(ms) has milliseconds in 0..999, seconds and minutes in *)
(* 0..59, hours >= 0, and to_ms(from_ms(ms)) = ms; for every Timecode tc   *)
(* with fields in those ranges, from_ms(to_ms(tc)) = tc.                   *)
(***************************************************************************)
Canonical(tc) ==
    /\ tc.ms \in 0 .. 999
    /\ tc.s \in 0 .. 59
    /\ tc.m \in 0 .. 59
    /\ tc.h >= 0

C15_MutualInverses ==
    /\ pc \in {"tc_from", "tc_from_to"} => Canonical(tc_out)
    /\ pc = "tc_from_to" => ms_out = ms_in
    /\ (pc = "tc_to_from" /\ Canonical(tc_in)) => tc_out = tc_in

C15_HourMinuteSecondRoundTrip ==
    /\ pc = "tc_from_to"
    /\ tc_out.h >= 1
    /\ tc_out.m >= 1
    /\ tc_out.s >= 1
    /\ tc_out.ms >= 1
    /\ ms_out = ms_in

(***************************************************************************)
(* The lines of the ASS input read so far that are the header by the       *)
(* trimmed content being [Events], and by the trimmed content starting     *)
(* with [Events], in any letter case.                                      *)
(***************************************************************************)
ExactHeader(line) == Len(strip(line)) = 1 /\ Lower(strip(line)[1]) = "[events]"

PrefixHeader(line) == strip(line) # <<>> /\ Lower(strip(line)[1]) = "[events]"

ExactHeaderBefore(k) == \E j \in 1 .. k - 1 : ExactHeader(lines[j])

PrefixHeaderBefore(k) == \E j \in 1 .. k - 1 : PrefixHeader(lines[j])

(***************************************************************************)
(* C16 as stated: the in-events flag is false for every line before the    *)
(* first line whose trimmed content is [Events] (in any letter case), true *)
(* from that line on and never reset, also after a later section header;   *)
(* every well-formed event line after the header is rewritten and none     *)
(* before it is.                                                           *)
(***************************************************************************)
C16_FlagFromExactHeader ==
    /\ pc = "ass_loop" => (in_events <=> ExactHeaderBefore(i))
    /\ pc \in {"ass_loop", "ass_done"} =>
          \A k \in DOMAIN out :
              (WellFormedEvent(lines[k]) /\ ~ExactHeader(lines[k])) =>
                  out[k] = (IF ExactHeaderBefore(k) THEN ass_rewritten(lines[k], place_top)
                            ELSE lines[k])

(***************************************************************************)
(* C16 amended: the flag is false for every line before the first line     *)
(* whose trimmed content starts with [Events] (in any letter case), true   *)
(* from that line on and never reset; every well-formed event line after   *)
(* that line is rewritten and none before it is.                           *)
(***************************************************************************)
C16_FlagFromHeaderPrefix ==
    /\ pc = "ass_loop" => (in_events <=> PrefixHeaderBefore(i))
    /\ pc = "ass_done" => (in_events <=> PrefixHeaderBefore(Len(lines) + 1))
    /\ pc \in {"ass_loop", "ass_done"} =>
          \A k \in DOMAIN out :
              (WellFormedEvent(lines[k]) /\ ~PrefixHeader(lines[k])) =>
                  out[k] = (IF PrefixHeaderBefore(k) THEN ass_rewritten(lines[k], place_top)
                            ELSE lines[k])

C16_EventAfterFontsRewritten ==
    /\ pc = "ass_done"
    /\ Len(lines) = 3
    /\ PrefixHeader(lines[1])
    /\ lines[2] = <<"[Fonts]">>
    /\ WellFormedEvent(lines[3])
    /\ in_events
    /\ out[3] = ass_rewritten(lines[3], place_top)
    /\ out[3] # lines[3]

(***************************************************************************)
(* The blocks of the SRT input, the line of a block that parse_srt takes   *)
(* as its timing line, and the two ways a block can fail to give a cue.    *)
(***************************************************************************)
InBlocks == split_blocks(strip_text(content))

\* the line after the index when the first line is a number, else the first
TimingAt(b) == IF is_int(strip_bom(b[1])) THEN 2 ELSE 1

HasArrow(b) == TimingAt(b) <= Len(b) /\ Contains(strip_bom(b[TimingAt(b)]), "-->")

\* the fragment splits at : , . into 4 parts, each a number
FourNumericParts(f) ==
    /\ Len(split_timecode(strip(f))) = 4
    /\ \A k \in 1 .. 4 : is_int(split_timecode(strip(f))[k])

BadTimecode(b) ==
    /\ HasArrow(b)
    /\ LET t == strip(strip_bom(b[TimingAt(b)]))
           a == FirstIndex(t, "-->")
       IN  \/ ~FourNumericParts(SubSeq(t, 1, a - 1))
           \/ ~FourNumericParts(SubSeq(t, a + 1, Len(t)))

\* the blocks that have a timing line, in order
RECURSIVE ArrowBlocks(_)
ArrowBlocks(bs) ==
    IF bs = <<>> THEN <<>>
    ELSE (IF HasArrow(Head(bs)) THEN <<Head(bs)>> ELSE <<>>) \o ArrowBlocks(Tail(bs))

IsSrt == ext_lower(ext) = ".srt"

(***************************************************************************)
(* C17: in parse_srt a block with no timing line containing --> is skipped *)
(* without error and the other blocks are still parsed into cues; a block  *)
(* whose timing line contains --> but whose start or end does not split    *)
(* into 4 numeric parts raises the malformed-timecode error, which aborts  *)
(* the parse, and process_subtitle writes no output.                       *)
(***************************************************************************)
C17_SkipNoArrowAbortOnBadTimecode ==
    /\ (IsSrt /\ pc \in {"parsed", "adjusted", "rewritten", "written"}) =>
          /\ \A k \in DOMAIN InBlocks : ~BadTimecode(InBlocks[k])
          /\ Len(items) = Len(ArrowBlocks(InBlocks))
          /\ \A k \in DOMAIN items :
                LET b == ArrowBlocks(InBlocks)[k]
                IN  items[k].text_lines =
                        [j \in 1 .. Len(b) - TimingAt(b) |-> strip_bom(b[TimingAt(b) + j])]
    /\ (IsSrt /\ \E k \in DOMAIN InBlocks : BadTimecode(InBlocks[k])) =>
          /\ pc \in {"start", "decided", "raised"}
          /\ items = <<>>
          /\ out_text = <<>>
          /\ files = <<>>
    /\ (IsSrt /\ pc = "raised") =>
          /\ \E k \in DOMAIN InBlocks : BadTimecode(InBlocks[k])
          /\ error = "ValueError: invalid timecode"

C17_BlockSkippedNextParsed ==
    /\ IsSrt
    /\ pc = "written"
    /\ Len(InBlocks) = 2
    /\ ~HasArrow(InBlocks[1])
    /\ HasArrow(InBlocks[2])
    /\ Len(items) = 1
    /\ files = <<out_text>>

====
